---- MODULE Spec2Model ----
(***************************************************************************)
(* State-machine model of the video editor client: the top-level session   *)
(* (App), the single-clip uploader and its two sets of trim controls        *)
(* (VideoPreview, TrimControls), the merge list (VideoMerger) and the       *)
(* requests in flight to the processing service.                            *)
(*                                                                          *)
(* Time is counted in slider ticks; TicksPerUnit ticks make the "1" that    *)
(* the trim handlers add to or subtract from a bound.  Strings built from   *)
(* parts (template literals) are tuples of their parts; '' is <<>>.         *)
(***************************************************************************)
EXTENDS Integers, Sequences, FiniteSets, TLC

\* ------------------------------------------------------------------ bounds
MaxDuration == 4
TicksPerUnit == 2
MaxVideos == 4
MaxBatch == 3
MaxShortList == 2
MaxShortBatch == 2

\* --------------------------------------------------------------- constants
Null == [null |-> TRUE]
NoError == <<>>

allowedTypes == {"video/mp4", "video/avi", "video/mov", "video/quicktime", "video/x-msvideo", "video/webm"}
SizeLimit == 100 * 1024 * 1024

\* The candidate files a user can pick.  duration is what the video element
\* reports for the file once its metadata is loaded.
FileA == [name |-> "a.mp4", type |-> "video/mp4", size |-> 1024 * 1024, duration |-> MaxDuration]
FileB == [name |-> "b.webm", type |-> "video/webm", size |-> SizeLimit, duration |-> 0]
FileC == [name |-> "c.mov", type |-> "video/quicktime", size |-> 2048, duration |-> MaxDuration - 1]
FileD == [name |-> "d.avi", type |-> "video/x-msvideo", size |-> 4096, duration |-> 1]
FileX == [name |-> "x.png", type |-> "image/png", size |-> 2048, duration |-> 0]
FileY == [name |-> "y.mp4", type |-> "video/mp4", size |-> SizeLimit + 1, duration |-> 1]
Files == {FileA, FileB, FileC, FileD, FileX, FileY}

FileIds == {"id1", "id2"}
ServiceErrors == {"service says no"}

\* What the processing service can answer to one request.
Outcomes ==
    {[kind |-> "ok", success |-> TRUE, file_id |-> f] : f \in FileIds}
      \cup {[kind |-> "ok", success |-> FALSE]}
      \cup {[kind |-> "error", error |-> <<m>>] : m \in ServiceErrors}
      \cup {[kind |-> "error", error |-> NoError]}
      \cup {[kind |-> "transport"]}

\* lastAdd is a history variable: the batch handed to the merge list's file
\* picker by the step just taken, and the empty sequence after any other step.
\* No handler reads it.  lastStep is a history variable too: what the step
\* just taken was, for the bound drags, the dispatches and the list edits.
VARIABLES
    selectedFile, convertedVideo, isConverting, trimData, currentMode, isMerging,
    uploaderError, videos, mergerError, preview, objectUrls, convReqs, mergeReqs,
    lastAdd, lastStep

vars == <<selectedFile, convertedVideo, isConverting, trimData, currentMode, isMerging,
          uploaderError, videos, mergerError, preview, objectUrls, convReqs, mergeReqs,
          lastAdd, lastStep>>

\* ----------------------------------------------------------------- helpers
Min_NoClamp(a, b) == a

Min(a, b) == IF a <= b THEN a ELSE b

Max_NoClamp(a, b) == a

Max(a, b) == IF a >= b THEN a ELSE b

\* Number.prototype.toString: the form field holds text, not a number.
NumberToString(n) == <<n>>

TrimOf(s, e, d) == [startTime |-> s, endTime |-> e, duration |-> d]

\* `http://localhost:5000/download/${file_id}`
DownloadUrl(file_id) == <<"http://localhost:5000/download/", file_id>>

\* err.response?.data?.error || fallback
ErrorText(o, fallback) ==
    IF o.kind = "error" /\ o.error # NoError THEN o.error ELSE <<fallback>>

\* A range input shows its value clamped into [0, max].
SliderShown(value, max) == Min(Max(value, 0), max)

\* A range input only reports positions other than the one it shows.
SliderMoves(value, max) == {v \in 0..max : v # SliderShown(value, max)}

RemoveAt(s, i) == [j \in 1..(Len(s) - 1) |-> IF j < i THEN s[j] ELSE s[j + 1]]

\* Every user action ends the "nothing happened since dispatch" record kept
\* with each request in flight.
Touched(reqs) == [i \in DOMAIN reqs |-> [reqs[i] EXCEPT !.quiet = FALSE]]
Orphaned_Cancels(reqs) == <<>>

Orphaned(reqs) == [i \in DOMAIN reqs |-> [reqs[i] EXCEPT !.alive = FALSE, !.quiet = FALSE]]

\* The values of lastStep.
OtherStep == [op |-> "other"]
DragStep(op, pushed) == [op |-> op, pushed |-> pushed]
DispatchStep(url, overResult) == [op |-> "dispatch", url |-> url, overResult |-> overResult]
SelectStep(file, overResult, overTrim) ==
    [op |-> "select", file |-> file, overResult |-> overResult, overTrim |-> overTrim]
SettledStep(url, success, alive, sameClip) ==
    [op |-> "settled", url |-> url, success |-> success, alive |-> alive, sameClip |-> sameClip]
RefusedStep(url, overResult) == [op |-> "refused", url |-> url, overResult |-> overResult]
EditStep(op, fromIndex, toIndex, before) ==
    [op |-> op, fromIndex |-> fromIndex, toIndex |-> toIndex, before |-> before]

\* ---------------------------------------------------------- preview pane
PreviewUnmounted == [mounted |-> FALSE, loading |-> FALSE, duration |-> 0, startTime |-> 0, endTime |-> 0]
PreviewFresh == [mounted |-> TRUE, loading |-> TRUE, duration |-> 0, startTime |-> 0, endTime |-> 0]

\* App's preview pane shows VideoPreview when there is no result, a clip is
\* selected and the mode is 'single'.
PreviewShown(cv, sf, mode) == cv = Null /\ sf # Null /\ mode = "single"

\* The browser's object URLs: objectUrls lists the handles that are live, each
\* with the file it was made for.  createObjectURL adds one handle,
\* revokeObjectURL releases one handle and does nothing for a handle that is
\* not live.
CreateObjectURL(urls, file) == Append(urls, [blob |-> file])

RevokeObjectURL_Noop(urls, file) == urls

RevokeObjectURL(urls, file) ==
    LET hits == {k \in 1..Len(urls) : urls[k] = [blob |-> file]}
    IN IF hits = {} THEN urls
       ELSE LET first == CHOOSE k \in hits : \A j \in hits : k <= j
            IN SubSeq(urls, 1, first - 1) \o SubSeq(urls, first + 1, Len(urls))

\* The effect of a render of App on the VideoPreview instance: unmounting
\* drops its local state, mounting starts from the useState defaults, a new
\* file prop reloads the video element and keeps the local state.  The
\* [file] effect makes a handle for the file on mount and on every new file
\* prop; its cleanup revokes the handle of the previous run before the next
\* run and on unmount.
RenderPreview(fileChanged) ==
    /\ preview' = IF ~PreviewShown(convertedVideo', selectedFile', currentMode') THEN PreviewUnmounted
                  ELSE IF ~preview.mounted THEN PreviewFresh
                  ELSE IF fileChanged THEN [preview EXCEPT !.loading = TRUE]
                  ELSE preview
    /\ objectUrls' =
          IF ~PreviewShown(convertedVideo', selectedFile', currentMode')
            THEN IF preview.mounted THEN RevokeObjectURL(objectUrls, selectedFile)
                 ELSE objectUrls
          ELSE IF ~preview.mounted THEN CreateObjectURL(objectUrls, selectedFile')
          ELSE IF fileChanged
            THEN CreateObjectURL(RevokeObjectURL(objectUrls, selectedFile), selectedFile')
          ELSE objectUrls

\* -------------------------------------------------------------- App handlers
handleFileSelected_KeepsTrim(file) ==
    /\ selectedFile' = file
    /\ convertedVideo' = Null
    /\ trimData' = trimData

handleFileSelected(file) ==
    /\ selectedFile' = file
    /\ convertedVideo' = Null
    /\ trimData' = Null

handleTrimChange(startTime, endTime, duration) ==
    trimData' = TrimOf(startTime, endTime, duration)

handleConversionComplete_KeepsBusy(result) ==
    /\ convertedVideo' = result
    /\ isConverting' = isConverting

handleConversionComplete(result) ==
    /\ convertedVideo' = result
    /\ isConverting' = FALSE

handleConversionStart_KeepsResult ==
    /\ isConverting' = TRUE
    /\ convertedVideo' = convertedVideo

handleConversionStart ==
    /\ isConverting' = TRUE
    /\ convertedVideo' = Null

handleMergeComplete(result) ==
    /\ convertedVideo' = result
    /\ isMerging' = FALSE

handleMergeStart ==
    /\ isMerging' = TRUE
    /\ convertedVideo' = Null

Init ==
    /\ selectedFile = Null
    /\ convertedVideo = Null
    /\ isConverting = FALSE
    /\ trimData = Null
    /\ currentMode = "single"
    /\ isMerging = FALSE
    /\ uploaderError = NoError
    /\ videos = <<>>
    /\ mergerError = NoError
    /\ preview = PreviewUnmounted
    /\ convReqs = <<>>
    /\ mergeReqs = <<>>
    /\ lastAdd = <<>>
    /\ lastStep = OtherStep
    /\ objectUrls = <<>>

\* ------------------------------------------------------------ mode toggle
SetCurrentMode(mode) ==
    /\ lastAdd' = <<>>
    /\ lastStep' = OtherStep
    /\ currentMode' = mode
    /\ UNCHANGED <<selectedFile, convertedVideo, isConverting, trimData, isMerging>>
    /\ IF mode = currentMode
         THEN /\ UNCHANGED <<uploaderError, videos, mergerError>>
              /\ convReqs' = Touched(convReqs)
              /\ mergeReqs' = Touched(mergeReqs)
         ELSE IF mode = "merge"
         THEN \* VideoUploader unmounts, VideoMerger mounts
              /\ uploaderError' = NoError
              /\ convReqs' = Orphaned(convReqs)
              /\ mergeReqs' = Touched(mergeReqs)
              /\ UNCHANGED <<videos, mergerError>>
         ELSE \* VideoMerger unmounts, VideoUploader mounts
              /\ videos' = <<>>
              /\ mergerError' = NoError
              /\ mergeReqs' = Orphaned(mergeReqs)
              /\ convReqs' = Touched(convReqs)
              /\ UNCHANGED uploaderError
    /\ RenderPreview(FALSE)

\* ------------------------------------------------------------ VideoUploader
UploaderMounted == currentMode = "single"

UploaderHandleFileSelect_NoSizeCheck(file) ==
    /\ lastAdd' = <<>>
    /\ lastStep' = SelectStep(file, convertedVideo # Null, trimData # Null)
    /\ UploaderMounted
    /\ IF file.type \notin allowedTypes
         THEN /\ uploaderError' = <<"Please select a valid video file (MP4, AVI, MOV, WebM)">>
              /\ UNCHANGED <<selectedFile, convertedVideo, trimData>>
         ELSE /\ handleFileSelected(file)
              /\ uploaderError' = NoError
    /\ UNCHANGED <<isConverting, currentMode, isMerging, videos, mergerError>>
    /\ convReqs' = Touched(convReqs)
    /\ mergeReqs' = Touched(mergeReqs)
    /\ RenderPreview(file.type \in allowedTypes)

UploaderHandleFileSelect(file) ==
    /\ lastAdd' = <<>>
    /\ lastStep' = SelectStep(file, convertedVideo # Null, trimData # Null)
    /\ UploaderMounted
    /\ IF file.type \notin allowedTypes
         THEN /\ uploaderError' = <<"Please select a valid video file (MP4, AVI, MOV, WebM)">>
              /\ UNCHANGED <<selectedFile, convertedVideo, trimData>>
         ELSE IF file.size > SizeLimit
         THEN /\ uploaderError' = <<"File size must be less than 100MB">>
              /\ UNCHANGED <<selectedFile, convertedVideo, trimData>>
         ELSE /\ handleFileSelected(file)
              /\ uploaderError' = NoError
    /\ UNCHANGED <<isConverting, currentMode, isMerging, videos, mergerError>>
    /\ convReqs' = Touched(convReqs)
    /\ mergeReqs' = Touched(mergeReqs)
    /\ RenderPreview(file.type \in allowedTypes /\ file.size <= SizeLimit)

ConvertFormData_NarrowOnly(file, trim) ==
    IF trim # Null /\ (trim.startTime > 0 \/ trim.endTime < trim.duration)
      THEN [video |-> file, startTime |-> NumberToString(trim.startTime), endTime |-> NumberToString(trim.endTime)]
      ELSE [video |-> file]

\* The request handleConvert builds: the clip, and the bounds as text when a
\* trim range is held.
ConvertFormData(file, trim) ==
    IF trim # Null
      THEN [video |-> file, startTime |-> NumberToString(trim.startTime), endTime |-> NumberToString(trim.endTime)]
      ELSE [video |-> file]

TrimFormData(file, trim) ==
    [video |-> file, startTime |-> NumberToString(trim.startTime), endTime |-> NumberToString(trim.endTime)]

\* A request in flight.  alive: the component that issued it is still mounted.
\* quiet: no user action has happened since it was sent.
NewRequest(url, formData) ==
    [url |-> url, formData |-> formData, alive |-> TRUE, quiet |-> TRUE]

\* A convert or trim-only request also remembers the trim range the session
\* held when it was sent.
NewConvRequest(url, formData) ==
    [url |-> url, formData |-> formData, alive |-> TRUE, quiet |-> TRUE,
     trimAtDispatch |-> trimData]

\* The action buttons are rendered when a clip is selected; Convert is
\* disabled while isConverting, Trim Only while isConverting or no trimData.
ConvertEnabled_NoBusyCheck == UploaderMounted /\ selectedFile # Null

ConvertEnabled == UploaderMounted /\ selectedFile # Null /\ ~isConverting
TrimOnlyEnabled == UploaderMounted /\ selectedFile # Null /\ ~(isConverting \/ trimData = Null)

\* handleConvert / handleTrimOnly up to the await of axios.post
handleConvert ==
    /\ lastAdd' = <<>>
    /\ lastStep' = DispatchStep("/upload", convertedVideo # Null)
    /\ ConvertEnabled
    /\ IF selectedFile = Null
         THEN UNCHANGED <<isConverting, convertedVideo, uploaderError, convReqs>>
         ELSE /\ handleConversionStart
              /\ uploaderError' = NoError
              /\ convReqs' = Append(Touched(convReqs),
                                    NewConvRequest("/upload", ConvertFormData(selectedFile, trimData)))
    /\ UNCHANGED <<selectedFile, trimData, currentMode, isMerging, videos, mergerError>>
    /\ mergeReqs' = Touched(mergeReqs)
    /\ RenderPreview(FALSE)

handleTrimOnly ==
    /\ lastAdd' = <<>>
    /\ lastStep' = DispatchStep("/trim", convertedVideo # Null)
    /\ TrimOnlyEnabled
    /\ IF selectedFile = Null \/ trimData = Null
         THEN UNCHANGED <<isConverting, convertedVideo, uploaderError, convReqs>>
         ELSE /\ handleConversionStart
              /\ uploaderError' = NoError
              /\ convReqs' = Append(Touched(convReqs),
                                    NewConvRequest("/trim", TrimFormData(selectedFile, trimData)))
    /\ UNCHANGED <<selectedFile, trimData, currentMode, isMerging, videos, mergerError>>
    /\ mergeReqs' = Touched(mergeReqs)
    /\ RenderPreview(FALSE)

ConvertFallback(url) ==
    IF url = "/upload" THEN "Conversion failed. Please try again."
                       ELSE "Trimming failed. Please try again."

\* handleConvert / handleTrimOnly after the await: request i is answered
\* with outcome o.  setError of an unmounted VideoUploader has no effect.
ConvertSettled(i, o) ==
    /\ lastAdd' = <<>>
    /\ i \in DOMAIN convReqs
    /\ lastStep' = SettledStep(convReqs[i].url, o.kind = "ok" /\ o.success, convReqs[i].alive,
                               convReqs[i].formData.video = selectedFile)
    /\ IF o.kind = "ok"
         THEN /\ IF o.success
                   THEN handleConversionComplete([fileId |-> o.file_id, downloadUrl |-> DownloadUrl(o.file_id)])
                   ELSE UNCHANGED <<convertedVideo, isConverting>>
              /\ UNCHANGED uploaderError
         ELSE /\ uploaderError' = IF convReqs[i].alive
                                    THEN ErrorText(o, ConvertFallback(convReqs[i].url))
                                    ELSE uploaderError
              /\ handleConversionStart
    /\ convReqs' = RemoveAt(convReqs, i)
    /\ UNCHANGED <<selectedFile, trimData, currentMode, isMerging, videos, mergerError, mergeReqs>>
    /\ RenderPreview(FALSE)

\* ------------------------------------------------------------- VideoPreview
handleLoadedMetadata ==
    /\ UNCHANGED objectUrls
    /\ lastAdd' = <<>>
    /\ lastStep' = OtherStep
    /\ preview.mounted /\ preview.loading
    /\ LET videoDuration == selectedFile.duration
       IN /\ preview' = [preview EXCEPT !.loading = FALSE, !.duration = videoDuration,
                                        !.endTime = videoDuration]
          /\ handleTrimChange(0, videoDuration, videoDuration)
    /\ UNCHANGED <<selectedFile, convertedVideo, isConverting, currentMode, isMerging,
                   uploaderError, videos, mergerError, convReqs, mergeReqs>>

PreviewControlsShown == preview.mounted /\ preview.duration > 0

PreviewHandleStartTimeChange(value) ==
    /\ UNCHANGED objectUrls
    /\ lastAdd' = <<>>
    /\ PreviewControlsShown
    /\ value \in SliderMoves(preview.startTime, preview.duration)
    /\ lastStep' = DragStep("setStart", value >= preview.endTime)
    /\ IF value >= preview.endTime
         THEN LET newEndTime == Min(value + TicksPerUnit, preview.duration)
              IN /\ preview' = [preview EXCEPT !.startTime = value, !.endTime = newEndTime]
                 /\ handleTrimChange(value, newEndTime, preview.duration)
         ELSE /\ preview' = [preview EXCEPT !.startTime = value]
              /\ handleTrimChange(value, preview.endTime, preview.duration)
    /\ convReqs' = Touched(convReqs)
    /\ mergeReqs' = Touched(mergeReqs)
    /\ UNCHANGED <<selectedFile, convertedVideo, isConverting, currentMode, isMerging,
                   uploaderError, videos, mergerError>>

PreviewHandleEndTimeChange(value) ==
    /\ UNCHANGED objectUrls
    /\ lastAdd' = <<>>
    /\ PreviewControlsShown
    /\ value \in SliderMoves(preview.endTime, preview.duration)
    /\ lastStep' = DragStep("setEnd", value <= preview.startTime)
    /\ IF value <= preview.startTime
         THEN LET newStartTime == Max(value - TicksPerUnit, 0)
              IN /\ preview' = [preview EXCEPT !.endTime = value, !.startTime = newStartTime]
                 /\ handleTrimChange(newStartTime, value, preview.duration)
         ELSE /\ preview' = [preview EXCEPT !.endTime = value]
              /\ handleTrimChange(preview.startTime, value, preview.duration)
    /\ convReqs' = Touched(convReqs)
    /\ mergeReqs' = Touched(mergeReqs)
    /\ UNCHANGED <<selectedFile, convertedVideo, isConverting, currentMode, isMerging,
                   uploaderError, videos, mergerError>>

\* ------------------------------------------------------------- TrimControls
TrimControlsShown == currentMode = "single" /\ selectedFile # Null /\ trimData # Null

TrimControlsHandleStartTimeChange(value) ==
    /\ UNCHANGED objectUrls
    /\ lastAdd' = <<>>
    /\ TrimControlsShown
    /\ value \in SliderMoves(trimData.startTime, trimData.duration)
    /\ lastStep' = DragStep("setStart", value >= trimData.endTime)
    /\ LET newStartTime == value
       IN IF newStartTime >= trimData.endTime
            THEN LET newEndTime == Min(newStartTime + TicksPerUnit, trimData.duration)
                 IN handleTrimChange(newStartTime, newEndTime, trimData.duration)
            ELSE handleTrimChange(newStartTime, trimData.endTime, trimData.duration)
    /\ convReqs' = Touched(convReqs)
    /\ mergeReqs' = Touched(mergeReqs)
    /\ UNCHANGED <<selectedFile, convertedVideo, isConverting, currentMode, isMerging,
                   uploaderError, videos, mergerError, preview>>

TrimControlsHandleEndTimeChange(value) ==
    /\ UNCHANGED objectUrls
    /\ lastAdd' = <<>>
    /\ TrimControlsShown
    /\ value \in SliderMoves(trimData.endTime, trimData.duration)
    /\ lastStep' = DragStep("setEnd", value <= trimData.startTime)
    /\ LET newEndTime == value
       IN IF newEndTime <= trimData.startTime
            THEN LET newStartTime == Max(newEndTime - TicksPerUnit, 0)
                 IN handleTrimChange(newStartTime, newEndTime, trimData.duration)
            ELSE handleTrimChange(trimData.startTime, newEndTime, trimData.duration)
    /\ convReqs' = Touched(convReqs)
    /\ mergeReqs' = Touched(mergeReqs)
    /\ UNCHANGED <<selectedFile, convertedVideo, isConverting, currentMode, isMerging,
                   uploaderError, videos, mergerError, preview>>

\* -------------------------------------------------------------- VideoMerger
MergerMounted == currentMode = "merge"

RECURSIVE ValidateEach_FailFast(_, _, _)
ValidateEach_FailFast(files, k, acc) ==
    IF k > Len(files) THEN acc
    ELSE LET file == files[k]
         IN IF file.type \notin allowedTypes
              THEN [acc EXCEPT !.error = <<file.name, " is not a valid video file">>]
            ELSE IF file.size > SizeLimit
              THEN [acc EXCEPT !.error = <<file.name, " is too large (max 100MB)">>]
            ELSE ValidateEach_FailFast(files, k + 1, [acc EXCEPT !.validFiles = Append(@, file)])

\* The forEach of handleFileSelect over files[k..]: acc.validFiles collects
\* the files that pass, acc.error is what the last setError call left.
RECURSIVE ValidateEach(_, _, _)
ValidateEach(files, k, acc) ==
    IF k > Len(files) THEN acc
    ELSE LET file == files[k]
         IN IF file.type \notin allowedTypes
              THEN ValidateEach(files, k + 1, [acc EXCEPT !.error = <<file.name, " is not a valid video file">>])
            ELSE IF file.size > SizeLimit
              THEN ValidateEach(files, k + 1, [acc EXCEPT !.error = <<file.name, " is too large (max 100MB)">>])
            ELSE ValidateEach(files, k + 1, [acc EXCEPT !.validFiles = Append(@, file)])

Batches == UNION {[1..n -> Files] : n \in 1..MaxBatch}

MergerHandleFileSelect(files) ==
    /\ UNCHANGED objectUrls
    /\ lastAdd' = files
    /\ lastStep' = OtherStep
    /\ MergerMounted
    /\ LET r == ValidateEach(files, 1, [validFiles |-> <<>>, error |-> mergerError])
       IN IF Len(r.validFiles) > 0
            THEN /\ videos' = videos \o r.validFiles
                 /\ mergerError' = NoError
            ELSE /\ videos' = videos
                 /\ mergerError' = r.error
    /\ convReqs' = Touched(convReqs)
    /\ mergeReqs' = Touched(mergeReqs)
    /\ UNCHANGED <<selectedFile, convertedVideo, isConverting, trimData, currentMode, isMerging,
                   uploaderError, preview>>

FilterOut_Truncate(prev, index) ==
    LET kept == IF index < 0 THEN 0 ELSE IF index > Len(prev) THEN Len(prev) ELSE index
    IN [n \in 1..kept |-> prev[n]]

\* prev.filter((_, i) => i !== index), index counted from 0
FilterOut(prev, index) ==
    LET keep == {j \in 1..Len(prev) : j - 1 # index}
        rank(j) == Cardinality({k \in keep : k <= j})
    IN [n \in 1..Cardinality(keep) |-> prev[CHOOSE j \in keep : rank(j) = n]]

removeVideo(index) ==
    /\ UNCHANGED objectUrls
    /\ lastAdd' = <<>>
    /\ lastStep' = EditStep("remove", index, index, videos)
    /\ MergerMounted
    /\ index \in 0..(Len(videos) - 1)
    /\ videos' = FilterOut(videos, index)
    /\ convReqs' = Touched(convReqs)
    /\ mergeReqs' = Touched(mergeReqs)
    /\ UNCHANGED <<selectedFile, convertedVideo, isConverting, trimData, currentMode, isMerging,
                   uploaderError, mergerError, preview>>

\* Array.prototype.splice for indices within the array, counted from 0
SpliceOut(arr, index) == SubSeq(arr, 1, index) \o SubSeq(arr, index + 2, Len(arr))
SpliceIn(arr, index, item) == SubSeq(arr, 1, index) \o <<item>> \o SubSeq(arr, index + 1, Len(arr))

MovedVideos_Swap(list, fromIndex, toIndex) ==
    [list EXCEPT ![fromIndex + 1] = list[toIndex + 1], ![toIndex + 1] = list[fromIndex + 1]]

MovedVideos(list, fromIndex, toIndex) ==
    LET movedVideo == list[fromIndex + 1]
    IN SpliceIn(SpliceOut(list, fromIndex), toIndex, movedVideo)

moveVideo(fromIndex, toIndex) ==
    /\ UNCHANGED objectUrls
    /\ lastAdd' = <<>>
    /\ lastStep' = EditStep("move", fromIndex, toIndex, videos)
    /\ videos' = MovedVideos(videos, fromIndex, toIndex)
    /\ convReqs' = Touched(convReqs)
    /\ mergeReqs' = Touched(mergeReqs)
    /\ UNCHANGED <<selectedFile, convertedVideo, isConverting, trimData, currentMode, isMerging,
                   uploaderError, mergerError, preview>>

\* onClick={() => index > 0 && moveVideo(index, index - 1)}, disabled={index === 0}
MoveUp(index) ==
    /\ MergerMounted
    /\ index \in 0..(Len(videos) - 1)
    /\ index # 0
    /\ index > 0
    /\ moveVideo(index, index - 1)

\* onClick={() => index < videos.length - 1 && moveVideo(index, index + 1)}
MoveDown(index) ==
    /\ MergerMounted
    /\ index \in 0..(Len(videos) - 1)
    /\ index # Len(videos) - 1
    /\ index < Len(videos) - 1
    /\ moveVideo(index, index + 1)

MergeFormData_CountsFromOne(list) ==
    [parts |-> [index \in 1..Len(list) |-> list[index]],
     videoCount |-> NumberToString(Len(list))]

\* formData.append(`video${index}`, video) for each entry, then videoCount
MergeFormData(list) ==
    [parts |-> [index \in 0..(Len(list) - 1) |-> list[index + 1]],
     videoCount |-> NumberToString(Len(list))]

\* The Merge button is rendered with two or more videos, disabled while isMerging.
MergeEnabled == MergerMounted /\ Len(videos) >= 2 /\ ~isMerging

TooFewVideos_OnlyEmpty(list) == Len(list) < 1

\* if (videos.length < 2)
TooFewVideos(list) == Len(list) < 2

\* A call of handleMerge, up to the await of axios.post
handleMergeCall ==
    /\ lastAdd' = <<>>
    /\ IF TooFewVideos(videos)
         THEN /\ mergerError' = <<"Please select at least 2 videos to merge">>
              /\ lastStep' = RefusedStep("/merge", convertedVideo # Null)
              /\ UNCHANGED <<isMerging, convertedVideo, mergeReqs>>
         ELSE /\ handleMergeStart
              /\ mergerError' = NoError
              /\ lastStep' = DispatchStep("/merge", convertedVideo # Null)
              /\ mergeReqs' = Append(Touched(mergeReqs), NewRequest("/merge", MergeFormData(videos)))
    /\ convReqs' = Touched(convReqs)
    /\ UNCHANGED <<selectedFile, isConverting, trimData, currentMode, videos, uploaderError>>
    /\ RenderPreview(FALSE)

\* A click on the Merge button
handleMerge ==
    /\ MergeEnabled
    /\ handleMergeCall

MergeSettled_ClearsBothFlags(i, o) ==
    /\ lastAdd' = <<>>
    /\ i \in DOMAIN mergeReqs
    /\ lastStep' = SettledStep(mergeReqs[i].url, o.kind = "ok" /\ o.success, mergeReqs[i].alive, TRUE)
    /\ IF o.kind = "ok"
         THEN /\ IF o.success
                   THEN /\ handleMergeComplete([fileId |-> o.file_id, downloadUrl |-> DownloadUrl(o.file_id)])
                        /\ isConverting' = FALSE
                   ELSE UNCHANGED <<convertedVideo, isMerging, isConverting>>
              /\ UNCHANGED mergerError
         ELSE /\ mergerError' = IF mergeReqs[i].alive
                                  THEN ErrorText(o, "Merge failed. Please try again.")
                                  ELSE mergerError
              /\ handleMergeStart
              /\ UNCHANGED isConverting
    /\ mergeReqs' = RemoveAt(mergeReqs, i)
    /\ UNCHANGED <<selectedFile, trimData, currentMode, videos, uploaderError, convReqs>>
    /\ RenderPreview(FALSE)

MergeSettled(i, o) ==
    /\ lastAdd' = <<>>
    /\ i \in DOMAIN mergeReqs
    /\ lastStep' = SettledStep(mergeReqs[i].url, o.kind = "ok" /\ o.success, mergeReqs[i].alive, TRUE)
    /\ IF o.kind = "ok"
         THEN /\ IF o.success
                   THEN handleMergeComplete([fileId |-> o.file_id, downloadUrl |-> DownloadUrl(o.file_id)])
                   ELSE UNCHANGED <<convertedVideo, isMerging>>
              /\ UNCHANGED mergerError
         ELSE /\ mergerError' = IF mergeReqs[i].alive
                                  THEN ErrorText(o, "Merge failed. Please try again.")
                                  ELSE mergerError
              /\ handleMergeStart
    /\ mergeReqs' = RemoveAt(mergeReqs, i)
    /\ UNCHANGED <<selectedFile, isConverting, trimData, currentMode, videos, uploaderError, convReqs>>
    /\ RenderPreview(FALSE)

\* ------------------------------------------------------------ specification
\* The whole client.  The sliders are dragged to a few stops only and the
\* merge list is kept short, so that every combination of the two modes, the
\* requests in flight and the service's answers is covered.
DragStops == {1, MaxDuration}
SessionFiles == {FileA, FileB, FileX, FileY}
ShortBatches == UNION {[1..n -> {FileA, FileX}] : n \in 1..MaxShortBatch}

\* The file input hands over a batch; the list is kept within MaxShortList.
AddShortBatch(files) ==
    /\ Len(videos) + Len(files) <= MaxShortList
    /\ MergerHandleFileSelect(files)

Next ==
    \/ \E mode \in {"single", "merge"} : SetCurrentMode(mode)
    \/ \E file \in SessionFiles : UploaderHandleFileSelect(file)
    \/ handleConvert
    \/ handleTrimOnly
    \/ \E i \in 1..2, o \in Outcomes : ConvertSettled(i, o)
    \/ handleLoadedMetadata
    \/ \E value \in DragStops : PreviewHandleStartTimeChange(value)
    \/ \E value \in DragStops : PreviewHandleEndTimeChange(value)
    \/ \E value \in DragStops : TrimControlsHandleStartTimeChange(value)
    \/ \E value \in DragStops : TrimControlsHandleEndTimeChange(value)
    \/ \E files \in ShortBatches : AddShortBatch(files)
    \/ \E index \in 0..(MaxShortList - 1) : removeVideo(index)
    \/ \E index \in 0..(MaxShortList - 1) : MoveUp(index)
    \/ \E index \in 0..(MaxShortList - 1) : MoveDown(index)
    \/ handleMerge
    \/ \E i \in 1..2, o \in Outcomes : MergeSettled(i, o)

Spec == Init /\ [][Next]_vars

\* The whole client with the one thing the service is relied on for: a
\* request in flight is answered at some time (the promise of axios.post
\* settles).  Nothing is assumed about what the user does or when.
SpecFair ==
    /\ Spec
    /\ WF_vars(\E i \in 1..2, o \in Outcomes : ConvertSettled(i, o))
    /\ WF_vars(\E i \in 1..2, o \in Outcomes : MergeSettled(i, o))

\* The trim model alone: a clip is chosen, its metadata loads, and both sets
\* of range controls are dragged to every slider position.
NextTrim ==
    \/ \E file \in Files : UploaderHandleFileSelect(file)
    \/ handleLoadedMetadata
    \/ \E value \in 0..MaxDuration : PreviewHandleStartTimeChange(value)
    \/ \E value \in 0..MaxDuration : PreviewHandleEndTimeChange(value)
    \/ \E value \in 0..MaxDuration : TrimControlsHandleStartTimeChange(value)
    \/ \E value \in 0..MaxDuration : TrimControlsHandleEndTimeChange(value)

SpecTrim == Init /\ [][NextTrim]_vars

\* The merge list alone: batches of every candidate file are added and the
\* list is edited, in merge mode.
InitMerge ==
    /\ Init!1 /\ Init!2 /\ Init!3 /\ Init!4
    /\ currentMode = "merge"
    /\ Init!6 /\ Init!7 /\ Init!8 /\ Init!9 /\ Init!10 /\ Init!11 /\ Init!12 /\ Init!13 /\ Init!14 /\ Init!15

AddBatch(files) ==
    /\ Len(videos) + Len(files) <= MaxVideos
    /\ MergerHandleFileSelect(files)

NextMerge ==
    \/ \E files \in Batches : AddBatch(files)
    \/ \E index \in 0..(MaxVideos - 1) : removeVideo(index)
    \/ \E index \in 0..(MaxVideos - 1) : MoveUp(index)
    \/ \E index \in 0..(MaxVideos - 1) : MoveDown(index)

SpecMerge == InitMerge /\ [][NextMerge]_vars

\* The merge handler called directly.  The Merge button exists only with two
\* or more entries, so in the client no click reaches handleMerge with fewer;
\* here handleMerge is called on every list, whenever no request is in flight.
CallFiles == {FileA, FileC, FileX}
CallBatches == UNION {[1..n -> CallFiles] : n \in 1..MaxShortBatch}

CallHandleMerge ==
    /\ MergerMounted
    /\ mergeReqs = <<>>
    /\ handleMergeCall

NextMergeCall ==
    \/ \E files \in CallBatches : AddShortBatch(files)
    \/ \E index \in 0..(MaxShortList - 1) : removeVideo(index)
    \/ CallHandleMerge
    \/ \E o \in Outcomes : MergeSettled(1, o)

SpecMergeCall == InitMerge /\ [][NextMergeCall]_vars

\* The merge mode with its dispatch: a short list of different clips is
\* built and edited, also while its merge request is in flight.
NextMergeDispatch ==
    \/ \E files \in CallBatches : AddShortBatch(files)
    \/ \E index \in 0..(MaxShortList - 1) : removeVideo(index)
    \/ \E index \in 0..(MaxShortList - 1) : MoveUp(index)
    \/ \E index \in 0..(MaxShortList - 1) : MoveDown(index)
    \/ handleMerge
    \/ \E o \in Outcomes : MergeSettled(1, o)

SpecMergeDispatch == InitMerge /\ [][NextMergeDispatch]_vars

\* -------------------------------------------------------------- properties
IsFailure(o) == o.kind # "ok"
IsSuccess(o) == o.kind = "ok" /\ o.success
IsValidCandidate(file) == file.type \in allowedTypes /\ file.size <= SizeLimit
\* The subsequence of the valid candidates of files[k..]
RECURSIVE ValidFrom(_, _)
ValidFrom(files, k) ==
    IF k > Len(files) THEN <<>>
    ELSE IF IsValidCandidate(files[k]) THEN <<files[k]>> \o ValidFrom(files, k + 1)
    ELSE ValidFrom(files, k + 1)

RejectionOf(file) ==
    IF file.type \notin allowedTypes THEN <<file.name, " is not a valid video file">>
                                     ELSE <<file.name, " is too large (max 100MB)">>

\* C1: when a convert, trim-only or merge request fails, the failure handler
\* leaves the Busy flag of that mode false and an error message held.
C1_FailureClearsBusy ==
    [][\A i \in 1..2, o \in Outcomes :
          IsFailure(o) =>
            /\ ConvertSettled(i, o) => (~isConverting' /\ uploaderError' # NoError)
            /\ MergeSettled(i, o) => (~isMerging' /\ mergerError' # NoError)]_vars

\* C2: for a clip with duration > 0 the trim range held by the session after
\* any drags satisfies 0 <= startTime < endTime <= duration.
C2_TrimOrdered ==
    (trimData # Null /\ trimData.duration > 0) =>
        /\ 0 <= trimData.startTime
        /\ trimData.startTime < trimData.endTime
        /\ trimData.endTime <= trimData.duration

\* C3: a failed convert or trim-only dispatch finds the selected clip and the
\* trim range exactly as they were when the request was sent, when the user
\* did nothing in between.
C3_FailureKeepsClipAndTrim ==
    [][\A i \in 1..2, o \in Outcomes :
          (/\ IsFailure(o)
           /\ ConvertSettled(i, o)
           /\ convReqs[i].quiet
           /\ convReqs[i].trimAtDispatch # Null)
          => /\ selectedFile' = convReqs[i].formData.video
             /\ trimData' = convReqs[i].trimAtDispatch]_vars

\* C4: at most one request per mode is outstanding, and while a mode is Busy
\* no step adds a request of that mode.
C4_OneDispatchPerMode ==
    [][/\ Len(convReqs') <= 1
       /\ Len(mergeReqs') <= 1
       /\ isConverting => Len(convReqs') <= Len(convReqs)
       /\ isMerging => Len(mergeReqs') <= Len(mergeReqs)]_vars

C4_Witness ==
    /\ isConverting /\ Len(convReqs) = 1
    /\ isMerging /\ Len(mergeReqs) = 1

\* C5 as stated: a convert request carries the bounds exactly when the trim
\* range held at dispatch is narrower than the full duration.
C5_BoundsOnlyWhenNarrower ==
    \A i \in DOMAIN convReqs :
       LET r == convReqs[i]
           t == r.trimAtDispatch
       IN r.url = "/upload" =>
            (("startTime" \in DOMAIN r.formData)
               <=> (t # Null /\ (t.startTime > 0 \/ t.endTime < t.duration)))

\* C5 amended: a convert request carries the bounds exactly when a trim range
\* is held at dispatch, the full range (0, duration, duration) included, and
\* the bounds it carries are that range's startTime and endTime.
C5_BoundsWhenTrimHeld ==
    \A i \in DOMAIN convReqs :
       LET r == convReqs[i]
           t == r.trimAtDispatch
       IN r.url = "/upload" =>
            /\ r.formData.video = selectedFile \/ ~r.quiet
            /\ IF t = Null
                 THEN DOMAIN r.formData = {"video"}
                 ELSE /\ DOMAIN r.formData = {"video", "startTime", "endTime"}
                      /\ r.formData.startTime = <<t.startTime>>
                      /\ r.formData.endTime = <<t.endTime>>

C5_Witness ==
    \E i \in DOMAIN convReqs :
       /\ convReqs[i].url = "/upload"
       /\ convReqs[i].trimAtDispatch = TrimOf(0, MaxDuration, MaxDuration)
       /\ "startTime" \in DOMAIN convReqs[i].formData

\* C6: no trim-only request is in flight unless a trim range of duration > 0
\* was held when it was sent.
C6_TrimOnlyNeedsDuration ==
    \A i \in DOMAIN convReqs :
       convReqs[i].url = "/trim" =>
          /\ convReqs[i].trimAtDispatch # Null
          /\ convReqs[i].trimAtDispatch.duration > 0

\* C7: after add(batch) the error held names every rejected candidate of the
\* batch with its failure reason, whether or not other candidates were accepted.
C7_EveryRejectionReported ==
    [][lastAdd' # <<>> =>
          \A k \in 1..Len(lastAdd') :
             ~IsValidCandidate(lastAdd'[k]) => mergerError' = RejectionOf(lastAdd'[k])]_vars

\* C8: add(batch) appends exactly the valid candidates of the batch, in batch
\* order, after the entries already in the list, which keep their places.
C8_AddAppendsValid ==
    [][lastAdd' # <<>> =>
          /\ videos' = videos \o ValidFrom(lastAdd', 1)
          /\ SubSeq(videos', 1, Len(videos)) = videos]_vars

C8_Witness ==
    /\ Len(lastAdd) = 3
    /\ IsValidCandidate(lastAdd[1])
    /\ ~IsValidCandidate(lastAdd[2])
    /\ IsValidCandidate(lastAdd[3])
    /\ lastAdd[1] # lastAdd[3]
    /\ Len(videos) = 3
    /\ SubSeq(videos, 2, 3) = <<lastAdd[1], lastAdd[3]>>

\* C9: switching the mode clears neither model: the merge list, the selected
\* clip and the trim range are after the switch what they were before it.
C9_ModeSwitchKeepsModels ==
    [][\A mode \in {"single", "merge"} :
          SetCurrentMode(mode) =>
             /\ videos' = videos
             /\ selectedFile' = selectedFile
             /\ trimData' = trimData]_vars

\* C10: a request answered with success and file_id f ends with its mode not
\* Busy and the session holding the result (f, retrieval path of f).
C10_SuccessGivesResult ==
    [][\A i \in 1..2, o \in Outcomes :
          IsSuccess(o) =>
            LET result == [fileId |-> o.file_id,
                           downloadUrl |-> <<"http://localhost:5000/download/", o.file_id>>]
            IN /\ ConvertSettled(i, o) => (~isConverting' /\ convertedVideo' = result)
               /\ MergeSettled(i, o) => (~isMerging' /\ convertedVideo' = result)]_vars

C10_Witness ==
    /\ convertedVideo # Null
    /\ convertedVideo.fileId = "id2"
    /\ ~isConverting /\ ~isMerging
    /\ convReqs = <<>> /\ mergeReqs = <<>>
    /\ videos # <<>>

\* C11: when the metadata of a clip of duration > 0 has loaded, the preview's
\* own bounds are startTime = 0 and endTime = duration, and the session holds
\* the range (0, duration, duration); also when the clip replaced an earlier
\* clip whose bounds had been dragged.
C11_DurationKnownResets ==
    [][(handleLoadedMetadata /\ selectedFile.duration > 0) =>
          /\ preview'.startTime = 0
          /\ preview'.endTime = selectedFile.duration
          /\ trimData' = TrimOf(0, selectedFile.duration, selectedFile.duration)]_vars

\* C12: setStart(v) with v at or beyond the end bound leaves startTime = v and
\* the end bound one time unit after v, or at the duration when that is
\* nearer; in the preview's sliders and in the sidebar controls alike.
C12_SetStartPushesEnd ==
    [][\A value \in 0..MaxDuration :
          /\ (PreviewHandleStartTimeChange(value) /\ value >= preview.endTime) =>
                LET pushedEnd == IF value + TicksPerUnit <= preview.duration
                                   THEN value + TicksPerUnit ELSE preview.duration
                IN /\ preview'.startTime = value
                   /\ preview'.endTime = pushedEnd
                   /\ trimData' = TrimOf(value, pushedEnd, preview.duration)
          /\ (TrimControlsHandleStartTimeChange(value) /\ value >= trimData.endTime) =>
                LET pushedEnd == IF value + TicksPerUnit <= trimData.duration
                                   THEN value + TicksPerUnit ELSE trimData.duration
                IN trimData' = TrimOf(value, pushedEnd, trimData.duration)]_vars

\* The start slider has just been dragged onto the end bound, and the end
\* bound now lies one unit after it, short of the duration.
C12_Witness ==
    /\ lastStep = DragStep("setStart", TRUE)
    /\ trimData # Null
    /\ trimData.startTime > 0
    /\ trimData.endTime = trimData.startTime + TicksPerUnit
    /\ trimData.endTime < trimData.duration

\* C13: setEnd(v) with v at or before the start bound leaves endTime = v and
\* the start bound one time unit before v, or at 0 when that is nearer; in the
\* preview's sliders and in the sidebar controls alike.
C13_SetEndPushesStart ==
    [][\A value \in 0..MaxDuration :
          /\ (PreviewHandleEndTimeChange(value) /\ value <= preview.startTime) =>
                LET pushedStart == IF value - TicksPerUnit >= 0 THEN value - TicksPerUnit ELSE 0
                IN /\ preview'.endTime = value
                   /\ preview'.startTime = pushedStart
                   /\ trimData' = TrimOf(pushedStart, value, preview.duration)
          /\ (TrimControlsHandleEndTimeChange(value) /\ value <= trimData.startTime) =>
                LET pushedStart == IF value - TicksPerUnit >= 0 THEN value - TicksPerUnit ELSE 0
                IN trimData' = TrimOf(pushedStart, value, trimData.duration)]_vars

\* The end slider has just been dragged onto the start bound, and the start
\* bound now lies one unit before it, above 0.
C13_Witness ==
    /\ lastStep = DragStep("setEnd", TRUE)
    /\ trimData # Null
    /\ trimData.startTime > 0
    /\ trimData.startTime = trimData.endTime - TicksPerUnit

\* C14: the step that dispatches a convert, trim-only or merge request sends
\* the request and leaves the session without a result, whatever result was
\* displayed before it.
C14_DispatchClearsResult ==
    [][/\ (handleConvert \/ handleTrimOnly) =>
             (Len(convReqs') = Len(convReqs) + 1 /\ convertedVideo' = Null)
       /\ handleMerge =>
             (Len(mergeReqs') = Len(mergeReqs) + 1 /\ convertedVideo' = Null)]_vars

\* A dispatch has just been made while a result was displayed; its request is
\* still in flight.
C14_Witness ==
    /\ lastStep.op = "dispatch"
    /\ lastStep.overResult
    /\ convertedVideo = Null
    /\ Len(convReqs) + Len(mergeReqs) > 0

\* C15: handleMerge called with fewer than two entries in the list sends no
\* request, leaves the merge Busy flag and the displayed result as they were,
\* and holds the message asking for at least 2 videos.
C15_ShortMergeRefused ==
    [][(CallHandleMerge /\ Len(videos) < 2) =>
          /\ mergeReqs' = mergeReqs
          /\ isMerging' = isMerging
          /\ convertedVideo' = convertedVideo
          /\ mergerError' = <<"Please select at least 2 videos to merge">>]_vars

\* handleMerge has just been called with one entry in the list while a result
\* was displayed: the result is still there and nothing is in flight.
C15_Witness ==
    /\ lastStep = RefusedStep("/merge", TRUE)
    /\ Len(videos) = 1
    /\ convertedVideo # Null
    /\ ~isMerging
    /\ mergeReqs = <<>>
    /\ mergerError = <<"Please select at least 2 videos to merge">>

\* The list without its entry at position pos (counted from 1)
Without(list, pos) == SubSeq(list, 1, pos - 1) \o SubSeq(list, pos + 1, Len(list))

\* after is before with the entry at fromIndex taken out and put at toIndex
\* (both counted from 0): same length, the moved entry at toIndex, and the
\* other entries in the order they had.
IsMoveOf(after, before, fromIndex, toIndex) ==
    /\ Len(after) = Len(before)
    /\ after[toIndex + 1] = before[fromIndex + 1]
    /\ Without(after, toIndex + 1) = Without(before, fromIndex + 1)

\* C16: move(fromIndex, toIndex) within the list takes the entry at fromIndex
\* out and puts it at toIndex, the entries in between shifting by one; this
\* is what a step of the move controls did to the list, and what moveVideo
\* computes for every pair of indices of the list.  The move-up control of
\* the first entry and the move-down control of the last entry cannot act.
C16_MoveReinserts ==
    /\ lastStep.op = "move" =>
          IsMoveOf(videos, lastStep.before, lastStep.fromIndex, lastStep.toIndex)
    /\ \A fromIndex, toIndex \in 0..(Len(videos) - 1) :
          IsMoveOf(MovedVideos(videos, fromIndex, toIndex), videos, fromIndex, toIndex)
    /\ ~ENABLED MoveUp(0)
    /\ ~ENABLED MoveDown(Len(videos) - 1)

\* The third of four different entries has just been moved up by one, and
\* moveVideo(2, 0) on the list before gives [C, A, B, D] for [A, B, C, D].
C16_Witness ==
    /\ lastStep.op = "move"
    /\ lastStep.fromIndex = 2 /\ lastStep.toIndex = 1
    /\ Len(videos) = 4
    /\ Cardinality({videos[i] : i \in 1..4}) = 4
    /\ LET before == lastStep.before
       IN /\ videos = <<before[1], before[3], before[2], before[4]>>
          /\ MovedVideos(before, 2, 0) = <<before[3], before[1], before[2], before[4]>>

\* C17: remove(index) within the list deletes the entry at index and nothing
\* else, the later entries moving down by one; this is what a step of the
\* remove control did to the list, and what the filter of removeVideo
\* computes for every index of the list.  For an index outside the list the
\* filter gives the list back unchanged.
C17_RemoveDeletesOne ==
    /\ lastStep.op = "remove" =>
          /\ Len(videos) = Len(lastStep.before) - 1
          /\ videos = Without(lastStep.before, lastStep.fromIndex + 1)
    /\ \A index \in 0..(Len(videos) - 1) :
          FilterOut(videos, index) = Without(videos, index + 1)
    /\ \A index \in {-1, Len(videos), Len(videos) + 1} :
          FilterOut(videos, index) = videos

\* The second of four different entries has just been removed: the first,
\* third and fourth are left, in that order.
C17_Witness ==
    /\ lastStep.op = "remove"
    /\ lastStep.fromIndex = 1
    /\ Len(lastStep.before) = 4
    /\ Cardinality({lastStep.before[i] : i \in 1..4}) = 4
    /\ videos = <<lastStep.before[1], lastStep.before[3], lastStep.before[4]>>

\* C18: the request a merge dispatch sends has one part per entry of the list
\* as it is at the dispatch, the part tagged video<i> being the entry at
\* position i (from 0), and videoCount the length of the list as text; no
\* later step changes a request that is still in flight.
C18_MergeRequestIsSnapshot ==
    [][/\ handleMerge =>
             LET formData == mergeReqs'[Len(mergeReqs')].formData
             IN /\ Len(mergeReqs') = Len(mergeReqs) + 1
                /\ DOMAIN formData.parts = 0..(Len(videos) - 1)
                /\ \A i \in 0..(Len(videos) - 1) : formData.parts[i] = videos[i + 1]
                /\ formData.videoCount = <<Len(videos)>>
       /\ Len(mergeReqs') >= Len(mergeReqs) =>
             \A i \in DOMAIN mergeReqs :
                /\ mergeReqs'[i].url = mergeReqs[i].url
                /\ mergeReqs'[i].formData = mergeReqs[i].formData]_vars

\* A merge request for two different clips is in flight, and the list has
\* just been reordered: the request still has the order of the dispatch.
C18_Witness ==
    /\ isMerging
    /\ Len(mergeReqs) = 1
    /\ lastStep.op = "move"
    /\ LET parts == mergeReqs[1].formData.parts
       IN /\ DOMAIN parts = {0, 1}
          /\ parts[0] # parts[1]
          /\ videos = <<parts[1], parts[0]>>

\* The error a failed request is to end with: the service's message when the
\* answer has one, the operation's generic message otherwise.
ExpectedError(o, generic) ==
    IF o.kind = "error" /\ o.error # NoError THEN o.error ELSE <<generic>>

GenericMessage(url) ==
    IF url = "/upload" THEN "Conversion failed. Please try again."
    ELSE IF url = "/trim" THEN "Trimming failed. Please try again."
    ELSE "Merge failed. Please try again."

\* C19: every answer other than success = true (an error response, no
\* response at all, a completed response whose success flag is not true) to
\* a request whose component is still shown ends with an error displayed: the
\* service's message verbatim when there is one, else the generic message of
\* the operation.
C19_FailureShowsError ==
    [][\A i \in 1..2, o \in Outcomes :
          ~IsSuccess(o) =>
            /\ (ConvertSettled(i, o) /\ convReqs[i].alive) =>
                  uploaderError' = ExpectedError(o, GenericMessage(convReqs[i].url))
            /\ (MergeSettled(i, o) /\ mergeReqs[i].alive) =>
                  mergerError' = ExpectedError(o, GenericMessage(mergeReqs[i].url))]_vars

\* C20: a mode that is Busy gets, whatever the service answers, to a state
\* where it is not Busy and the session holds a result or the mode an error.
C20_BusyEnds ==
    /\ isConverting ~> (~isConverting /\ (convertedVideo # Null \/ uploaderError # NoError))
    /\ isMerging ~> (~isMerging /\ (convertedVideo # Null \/ mergerError # NoError))

\* C21: a drag that stays on its side of the other bound leaves the other
\* bound of the session's trim range as it was: setStart(v) with v below the
\* end bound keeps the session's endTime, setEnd(v) with v above the start
\* bound keeps the session's startTime, from the preview's sliders and from
\* the sidebar controls alike.
C21_UncrossedDragKeepsOtherBound ==
    [][trimData # Null =>
         \A value \in 0..MaxDuration :
            /\ (/\ value < trimData.endTime
                /\ \/ PreviewHandleStartTimeChange(value) /\ value < preview.endTime
                   \/ TrimControlsHandleStartTimeChange(value))
               => trimData'.endTime = trimData.endTime
            /\ (/\ value > trimData.startTime
                /\ \/ PreviewHandleEndTimeChange(value) /\ value > preview.startTime
                   \/ TrimControlsHandleEndTimeChange(value))
               => trimData'.startTime = trimData.startTime]_vars

\* C22: only the metadata load of the selected clip gives the session a trim
\* range when it has none, and a trim range the session holds has the
\* duration of the clip that is selected.
C22_TrimRangeOfSelectedClip ==
    [][/\ (trimData = Null /\ trimData' # Null) => handleLoadedMetadata
       /\ trimData' # Null =>
             /\ selectedFile' # Null
             /\ trimData'.duration = selectedFile'.duration]_vars

\* C23: choosing a valid clip makes it the selected clip and leaves the
\* session with no trim range and no result, in that one step; offering a
\* candidate of a wrong type or above the size ceiling changes none of the
\* selected clip, the trim range and the result.
C23_SelectionResetsSession ==
    [][\A file \in Files :
          UploaderHandleFileSelect(file) =>
             IF IsValidCandidate(file)
               THEN /\ selectedFile' = file
                    /\ trimData' = Null
                    /\ convertedVideo' = Null
               ELSE /\ selectedFile' = selectedFile
                    /\ trimData' = trimData
                    /\ convertedVideo' = convertedVideo]_vars

\* A valid clip has just been chosen while a result was displayed and a trim
\* range was held: both are gone and the clip is the selected one.
C23_Witness ==
    /\ lastStep.op = "select"
    /\ IsValidCandidate(lastStep.file)
    /\ lastStep.overResult /\ lastStep.overTrim
    /\ selectedFile = lastStep.file
    /\ trimData = Null
    /\ convertedVideo = Null

\* C24: a request in flight leaves flight only by being answered, whatever
\* the user does meanwhile; and when a request is answered with success after
\* the user has acted since its dispatch (clip replaced, mode switched), its
\* result becomes the session's result and the Busy flag of its mode is
\* cleared.
C24_InFlightSurvives ==
    [][/\ Len(convReqs') < Len(convReqs) =>
             /\ \E i \in 1..2, o \in Outcomes : ConvertSettled(i, o)
             /\ \A i \in 1..2, o \in Outcomes :
                   (IsSuccess(o) /\ ConvertSettled(i, o) /\ ~convReqs[i].quiet) =>
                      /\ convertedVideo' = [fileId |-> o.file_id,
                                            downloadUrl |-> <<"http://localhost:5000/download/", o.file_id>>]
                      /\ ~isConverting'
       /\ Len(mergeReqs') < Len(mergeReqs) =>
             /\ \E i \in 1..2, o \in Outcomes : MergeSettled(i, o)
             /\ \A i \in 1..2, o \in Outcomes :
                   (IsSuccess(o) /\ MergeSettled(i, o) /\ ~mergeReqs[i].quiet) =>
                      /\ convertedVideo' = [fileId |-> o.file_id,
                                            downloadUrl |-> <<"http://localhost:5000/download/", o.file_id>>]
                      /\ ~isMerging']_vars

\* A convert request has just been answered with success after the clip was
\* replaced and the mode switched to merge: its result is displayed there.
C24_Witness ==
    /\ lastStep.op = "settled"
    /\ lastStep.url = "/upload"
    /\ lastStep.success /\ ~lastStep.alive /\ ~lastStep.sameClip
    /\ currentMode = "merge"
    /\ convertedVideo # Null
    /\ ~isConverting

\* A clip the client may hold or send: a type of the allow-list and a size of
\* at most 100 MiB.
Acceptable(file) ==
    /\ file.type \in {"video/mp4", "video/avi", "video/mov", "video/quicktime",
                       "video/x-msvideo", "video/webm"}
    /\ file.size <= 100 * 1024 * 1024

\* C25: the selected clip, every entry of the merge list and every clip
\* carried by a request in flight has an allowed type and a size of at most
\* 100 MiB.
C25_OnlyValidClipsHeld ==
    /\ selectedFile # Null => Acceptable(selectedFile)
    /\ \A k \in 1..Len(videos) : Acceptable(videos[k])
    /\ \A i \in DOMAIN convReqs : Acceptable(convReqs[i].formData.video)
    /\ \A i \in DOMAIN mergeReqs :
          \A index \in DOMAIN mergeReqs[i].formData.parts :
             Acceptable(mergeReqs[i].formData.parts[index])

\* An oversized candidate has just been turned down while a convert request
\* and a merge request are in flight: the clip selected before is still the
\* selected one.
C25_Witness ==
    /\ lastStep.op = "select"
    /\ lastStep.file.size > 100 * 1024 * 1024
    /\ selectedFile # Null
    /\ selectedFile # lastStep.file
    /\ Len(convReqs) = 1
    /\ Len(mergeReqs) = 1

\* C26: a step that sends, completes or fails a convert or trim-only request
\* leaves the merge mode's Busy flag as it was, and a step that sends,
\* completes or fails a merge request leaves the single mode's Busy flag as
\* it was.
C26_BusyFlagsIndependent ==
    [][/\ Len(convReqs') # Len(convReqs) =>
             /\ \/ handleConvert
                \/ handleTrimOnly
                \/ \E i \in 1..2, o \in Outcomes : ConvertSettled(i, o)
             /\ isMerging' = isMerging
       /\ Len(mergeReqs') # Len(mergeReqs) =>
             /\ \/ handleMerge
                \/ \E i \in 1..2, o \in Outcomes : MergeSettled(i, o)
             /\ isConverting' = isConverting]_vars

\* A merge request has just been answered with success while a convert
\* request is in flight: the single mode is still Busy, the merge mode is not.
C26_Witness ==
    /\ lastStep.op = "settled"
    /\ lastStep.url = "/merge"
    /\ lastStep.success
    /\ ~isMerging
    /\ isConverting
    /\ Len(convReqs) = 1

\* C27: the preview handle made for a clip is revoked when the clip is replaced
\* and when the preview is torn down: at every moment at most one handle is
\* live, a live handle is the one made for the selected clip of the mounted
\* preview, and no handle is live while the preview is not mounted.
C27_PreviewHandleReleased ==
    /\ Len(objectUrls) <= 1
    /\ \A k \in 1..Len(objectUrls) : preview.mounted /\ objectUrls[k].blob = selectedFile
    /\ preview.mounted => Len(objectUrls) = 1

\* A clip was replaced while its preview was mounted with the range loaded,
\* and the only live handle is the one of the new clip.
C27_Witness ==
    /\ lastStep.op = "select" /\ lastStep.overTrim /\ ~lastStep.overResult
    /\ lastStep.file = FileB /\ selectedFile = FileB
    /\ preview.mounted /\ preview.duration = FileA.duration
    /\ objectUrls = <<[blob |-> FileB]>>

\* C28: the two copies of the trim window agree: whenever the preview is
\* mounted with its duration known and the session holds a trim range, the
\* preview's local (startTime, endTime, duration) is the session's range.
C28_TrimCopiesAgree ==
    (preview.mounted /\ preview.duration > 0 /\ trimData # Null) =>
        /\ preview.startTime = trimData.startTime
        /\ preview.endTime = trimData.endTime
        /\ preview.duration = trimData.duration

\* C29: a result is displayed only while no dispatch is outstanding: in every
\* reachable state, if isConverting or isMerging is true then the session
\* holds no result.
C29_NoResultWhileBusy ==
    (isConverting \/ isMerging) => convertedVideo = Null

====
